---- MODULE Spec2Model ----
(***************************************************************************)
(* Partition transforms of pyiceberg (python/pyiceberg/transforms.py):     *)
(* the Transform hierarchy (Identity, Bucket, Truncate, Void, Unknown),    *)
(* the validator that parses a specifier string into a transform, and the  *)
(* per-call operations can_transform / transform / result_type /           *)
(* satisfies_order_of / to_human_string and the returned mapping closures. *)
(*                                                                         *)
(* Python strings and byte strings are sequences (of one-character strings *)
(* and of 0..255); Python values, results and raised exceptions are        *)
(* records tagged by the field k.                                          *)
(***************************************************************************)
EXTENDS Integers, Sequences, FiniteSets, TLC

VARIABLES objs, last

vars == <<objs, last>>

(***************************************************************************)
(* Bounds of the explored inputs.                                          *)
(***************************************************************************)
\* constructor parameters and bracketed numbers range over -1..MaxParam
MaxParam == 2
\* integer-like source values range over -MaxVal..MaxVal
MaxVal == 2
\* string and byte-string source values have 0..MaxLen elements
MaxLen == 3

(***************************************************************************)
(* Module constants.                                                       *)
(***************************************************************************)
IDENTITY == <<"i","d","e","n","t","i","t","y">>
VOID == <<"v","o","i","d">>
BUCKET == <<"b","u","c","k","e","t">>
TRUNCATE == <<"t","r","u","n","c","a","t","e">>
UNKNOWN == <<"u","n","k","n","o","w","n">>
NULL == <<"n","u","l","l">>

\* IntegerType.max, the mask of BucketTransform
IntegerTypeMax == 2147483647

(***************************************************************************)
(* Python values and outcomes.                                             *)
(***************************************************************************)
None == [k |-> "None"]
PyInt(n) == [k |-> "int", v |-> n]
PyStr(s) == [k |-> "str", s |-> s]
PyBytes(b) == [k |-> "bytes", b |-> b]
PyBool(b) == [k |-> "bool", t |-> b]
PyDecimal(u) == [k |-> "decimal", v |-> u]
PyUUID(n) == [k |-> "uuid", v |-> n]
PyType(t) == [k |-> "type", ty |-> t]
Raise(exc) == [k |-> "raise", exc |-> exc]
IsRaise(r) == r.k = "raise"

\* the truth value Python gives a value in `x if v else None`
Truthy(v) ==
  CASE v.k = "None" -> FALSE
    [] v.k = "int" -> v.v # 0
    [] v.k = "decimal" -> v.v # 0
    [] v.k = "str" -> Len(v.s) > 0
    [] v.k = "bytes" -> Len(v.b) > 0
    [] OTHER -> TRUE

(***************************************************************************)
(* Strings: startswith, str(int), int(str).                                *)
(***************************************************************************)
StartsWith(s, p) == Len(s) >= Len(p) /\ SubSeq(s, 1, Len(p)) = p

EndsWith(s, p) == Len(s) >= Len(p) /\ SubSeq(s, Len(s) - Len(p) + 1, Len(s)) = p

Digits == <<"0","1","2","3","4","5","6","7","8","9">>

DigitChar(d) == Digits[d + 1]

DigitVal(c) == CHOOSE d \in 0..9 : Digits[d + 1] = c

IsDigit(c) == \E d \in 0..9 : Digits[d + 1] = c

RECURSIVE NatToStr(_)
NatToStr(n) == IF n < 10 THEN <<DigitChar(n)>> ELSE NatToStr(n \div 10) \o <<DigitChar(n % 10)>>

\* the text an f-string puts for an int: "{n}"
IntToStr(n) == IF n < 0 THEN <<"-">> \o NatToStr(-n) ELSE NatToStr(n)

RECURSIVE StrToNat(_)
StrToNat(s) == IF Len(s) = 0 THEN 0 ELSE 10 * StrToNat(SubSeq(s, 1, Len(s) - 1)) + DigitVal(s[Len(s)])

AllDigits(s) == Len(s) > 0 /\ \A i \in 1..Len(s) : IsDigit(s[i])

IsIntText(s) == AllDigits(s) \/ (Len(s) > 1 /\ s[1] = "-" /\ AllDigits(Tail(s)))

StrToInt(s) == IF s[1] = "-" THEN 0 - StrToNat(Tail(s)) ELSE StrToNat(s)

(***************************************************************************)
(* ParseNumberFromBrackets(prefix).match: the number in "prefix[N]".       *)
(***************************************************************************)
ParserMatch(prefix, s) ==
  LET open == prefix \o <<"[">>
      inner == SubSeq(s, Len(open) + 1, Len(s) - 1)
  IN IF StartsWith(s, open) /\ EndsWith(s, <<"]">>) /\ Len(s) > Len(open)
        /\ IsIntText(inner) /\ StrToInt(inner) > 0
       THEN PyInt(StrToInt(inner))
       ELSE Raise("ValueError")

BUCKET_PARSER(s) == ParserMatch(BUCKET, s)

TRUNCATE_PARSER(s) == ParserMatch(TRUNCATE, s)

(***************************************************************************)
(* Construction.  A private attribute declared without a default is left   *)
(* unset by construction; _source_type is assigned nowhere.                *)
(***************************************************************************)
Unset == "<unset>"

BucketTransform(num_buckets) ==
  [k |-> "obj", cls |-> "BucketTransform",
   root |-> BUCKET \o <<"[">> \o IntToStr(num_buckets) \o <<"]">>,
   source_type |-> Unset, num_buckets |-> num_buckets]

TruncateTransform(width) ==
  [k |-> "obj", cls |-> "TruncateTransform",
   root |-> TRUNCATE \o <<"[">> \o IntToStr(width) \o <<"]">>,
   source_type |-> Unset, width |-> width]

IdentityTransform ==
  [k |-> "obj", cls |-> "IdentityTransform", root |-> IDENTITY, source_type |-> Unset]

VoidTransform ==
  [k |-> "obj", cls |-> "VoidTransform", root |-> VOID]

UnknownTransform(transform) ==
  [k |-> "obj", cls |-> "UnknownTransform", root |-> UNKNOWN,
   source_type |-> Unset, transform |-> transform]

(***************************************************************************)
(* Transform.validate on a string.                                         *)
(***************************************************************************)
validate(v) ==
  IF v = IDENTITY THEN IdentityTransform
  ELSE IF v = VOID THEN VoidTransform
  ELSE IF StartsWith(v, BUCKET)
    THEN LET n == BUCKET_PARSER(v) IN IF IsRaise(n) THEN n ELSE BucketTransform(n.v)
  ELSE IF StartsWith(v, TRUNCATE)
    THEN LET n == BUCKET_PARSER(v) IN IF IsRaise(n) THEN n ELSE TruncateTransform(n.v)
  ELSE UnknownTransform(v)

(***************************************************************************)
(* Source types (pyiceberg.types).  The primitive types outside every      *)
(* allow-list are represented by BooleanType and FloatType, the nested     *)
(* types by StructType.                                                    *)
(***************************************************************************)
IntLikeTypes == {"IntegerType", "LongType", "DateType", "TimeType", "TimestampType", "TimestamptzType"}

BytesLikeTypes == {"StringType", "FixedType", "BinaryType"}

PrimitiveTypes == IntLikeTypes \cup BytesLikeTypes \cup {"DecimalType", "UUIDType", "BooleanType", "FloatType"}

Types == PrimitiveTypes \cup {"StructType"}

\* IcebergType.is_primitive
is_primitive(source) == source \in PrimitiveTypes

(***************************************************************************)
(* Byte encodings and the hash.                                            *)
(***************************************************************************)
\* struct.pack("<q", v): 8 bytes, little-endian, two's complement (|v| < 2^23)
PackQ(v) ==
  [i \in 1..8 |-> IF i <= 3 THEN ((v % 16777216) \div (256 ^ (i - 1))) % 256
                  ELSE IF v < 0 THEN 255 ELSE 0]

\* struct.pack(">QQ", (v.int >> 64) & M, v.int & M): 16 bytes, big-endian (0 <= v.int < 2^24)
PackQQ(n) ==
  [i \in 1..16 |-> IF i >= 14 THEN (n \div (256 ^ (16 - i))) % 256 ELSE 0]

\* decimal_to_bytes: minimal two's-complement big-endian bytes of the unscaled value
decimal_to_bytes(u) ==
  IF -128 <= u /\ u <= 127 THEN <<u % 256>> ELSE <<(u \div 256) % 256, u % 256>>

Letters == <<"a","b","c","d","e","f","g","h">>

\* the UTF-8 bytes mmh3.hash takes of a str (letters a..h)
Utf8(s) == [i \in 1..Len(s) |-> 96 + (CHOOSE j \in 1..Len(Letters) : Letters[j] = s[i])]

RECURSIVE Mix(_, _)
Mix(h, bytes) ==
  IF Len(bytes) = 0 THEN h ELSE Mix((h * 33 + Head(bytes) + 1) % 65536, Tail(bytes))

\* mmh3.hash(bytes), the library's 32-bit Murmur3: what the transforms use of it
\* is that it is a fixed function of the bytes into the signed 32-bit integers
mmh3_hash(bytes) ==
  LET h == Mix(40503, bytes) IN (h - 32768) * 65536 + h

\* x & IntegerType.max for a signed 32-bit x
AndIntegerMax(x) == IF x >= 0 THEN x ELSE (x + IntegerTypeMax) + 1

\* Python's a % n (the sign of the result follows n; n = 0 raises)
PyMod(a, n) ==
  IF n > 0 THEN PyInt(a % n)
  ELSE IF n < 0 THEN PyInt(0 - ((0 - a) % (0 - n)))
  ELSE Raise("ZeroDivisionError")

\* Python's v[0:e]
PySlice0(v, e) ==
  LET stop == IF e < 0 THEN (IF Len(v) + e < 0 THEN 0 ELSE Len(v) + e)
              ELSE (IF e > Len(v) THEN Len(v) ELSE e)
  IN SubSeq(v, 1, stop)

PyMin(a, b) == IF a <= b THEN a ELSE b

(***************************************************************************)
(* Transform: the methods of the base class.                               *)
(***************************************************************************)
\* Transform.__str__ and IdentityTransform.__str__
Str(t) == IF t.cls = "IdentityTransform" THEN IDENTITY ELSE t.root

\* __eq__ that compares the classes only
Eq_by_class(t, other) == t.cls = other.cls

\* Transform.__eq__ on two transforms
Eq(t, other) == t.root = other.root

\* preserves_order with the override of TruncateTransform left out
preserves_order_no_truncate(t) == t.cls = "IdentityTransform"

\* Transform.preserves_order and its overrides
preserves_order(t) == t.cls \in {"IdentityTransform", "TruncateTransform"}

\* TruncateTransform.source_type: reads the private attribute
source_type(t) ==
  IF t.source_type = Unset THEN Raise("AttributeError") ELSE PyType(t.source_type)

(***************************************************************************)
(* can_transform, result_type.                                             *)
(***************************************************************************)
BucketCanTransform(source) ==
  source \in {"IntegerType", "DateType", "LongType", "TimeType", "TimestampType",
              "TimestamptzType", "DecimalType", "StringType", "FixedType",
              "BinaryType", "UUIDType"}

TruncateCanTransform(source) ==
  source \in {"IntegerType", "LongType", "StringType", "BinaryType", "DecimalType"}

can_transform(t, source) ==
  CASE t.cls = "BucketTransform" -> PyBool(BucketCanTransform(source))
    [] t.cls = "IdentityTransform" -> PyBool(is_primitive(source))
    [] t.cls = "TruncateTransform" -> PyBool(TruncateCanTransform(source))
    [] t.cls = "UnknownTransform" -> PyBool(FALSE)
    [] t.cls = "VoidTransform" -> PyBool(TRUE)

result_type(t, source) ==
  CASE t.cls = "BucketTransform" -> PyType("IntegerType")
    [] t.cls = "IdentityTransform" -> PyType(source)
    [] t.cls = "TruncateTransform" -> PyType(source)
    [] t.cls = "UnknownTransform" -> PyType("StringType")
    [] t.cls = "VoidTransform" -> PyType(source)

(***************************************************************************)
(* State.  objs holds the transforms constructed so far, one per name      *)
(* (self and other of the binary operations); last is the last call made   *)
(* and what it returned or raised.  A returned mapping function is a       *)
(* closure over self (the name of its transform) and the source type.      *)
(***************************************************************************)
Slots == {"a", "b"}

NoObj == [k |-> "NoObj"]

Closure(name, self, source) == [k |-> "fn", name |-> name, self |-> self, source |-> source]

(***************************************************************************)
(* transform(source): the mapping function for a source type.              *)
(***************************************************************************)
\* the type dispatch of BucketTransform.transform
BucketHashable(source) ==
  source \in IntLikeTypes \cup {"DecimalType"} \cup BytesLikeTypes \cup {"UUIDType"}

BucketTransform_transform(self, source, bucket) ==
  IF BucketHashable(source)
    THEN Closure(IF bucket THEN "bucket_lambda" ELSE "hash_func", self, source)
    ELSE Raise("ValueError")

IdentityTransform_transform(self, source) == Closure("identity_lambda", self, source)

TruncateTransform_transform(self, source) ==
  IF source \in {"IntegerType", "LongType"} \cup {"StringType", "BinaryType"} \cup {"DecimalType"}
    THEN Closure("truncate_lambda", self, source)
    ELSE Raise("ValueError")

UnknownTransform_transform(self, source) == Raise("AttributeError")

VoidTransform_transform(self, source) == Closure("void_lambda", self, source)

transform(self, source) ==
  CASE objs[self].cls = "BucketTransform" -> BucketTransform_transform(self, source, TRUE)
    [] objs[self].cls = "IdentityTransform" -> IdentityTransform_transform(self, source)
    [] objs[self].cls = "TruncateTransform" -> TruncateTransform_transform(self, source)
    [] objs[self].cls = "UnknownTransform" -> UnknownTransform_transform(self, source)
    [] objs[self].cls = "VoidTransform" -> VoidTransform_transform(self, source)

(***************************************************************************)
(* The bodies of the returned functions.                                   *)
(***************************************************************************)
\* hash_func of BucketTransform.transform, by source type
hash_func(source, v) ==
  CASE source \in IntLikeTypes -> mmh3_hash(PackQ(v.v))
    [] source = "DecimalType" -> mmh3_hash(decimal_to_bytes(v.v))
    [] source = "StringType" -> mmh3_hash(Utf8(v.s))
    [] source \in {"FixedType", "BinaryType"} -> mmh3_hash(v.b)
    [] source = "UUIDType" -> mmh3_hash(PackQQ(v.v))

\* lambda v: (hash_func(v) & IntegerType.max) % self._num_buckets if v else None
bucket_lambda(t, source, v) ==
  IF Truthy(v) THEN PyMod(AndIntegerMax(hash_func(source, v)), t.num_buckets) ELSE None

\* truncate_decimal(v, width): the unscaled value lowered to a multiple of width
truncate_decimal(u, width) ==
  LET m == PyMod(u, width) IN IF IsRaise(m) THEN m ELSE PyDecimal(u - m.v)

\* truncate_func of TruncateTransform.transform, by source type
truncate_func(t, source, v) ==
  CASE source \in {"IntegerType", "LongType"} ->
         LET m == PyMod(v.v, t.width) IN IF IsRaise(m) THEN m ELSE PyInt(v.v - m.v)
    [] source = "StringType" -> PyStr(PySlice0(v.s, PyMin(t.width, Len(v.s))))
    [] source = "BinaryType" -> PyBytes(PySlice0(v.b, PyMin(t.width, Len(v.b))))
    [] source = "DecimalType" -> truncate_decimal(v.v, t.width)

\* lambda v: truncate_func(v) if v else None
truncate_lambda(t, source, v) ==
  IF Truthy(v) THEN truncate_func(t, source, v) ELSE None

\* the call f(v) of a function returned by transform
call(f, v) ==
  CASE f.name = "bucket_lambda" -> bucket_lambda(objs[f.self], f.source, v)
    [] f.name = "hash_func" -> PyInt(hash_func(f.source, v))
    [] f.name = "truncate_lambda" -> truncate_lambda(objs[f.self], f.source, v)
    [] f.name = "identity_lambda" -> v
    [] f.name = "void_lambda" -> None

\* BucketTransform.apply: BucketTransform.hash raises NotImplementedError
apply(t, value) == IF Truthy(value) THEN Raise("NotImplementedError") ELSE None

(***************************************************************************)
(* satisfies_order_of.                                                     *)
(***************************************************************************)
TruncateTransform_satisfies_order_of(t, other) ==
  IF Eq(t, other) THEN PyBool(TRUE)
  ELSE LET st == source_type(t) IN
    IF IsRaise(st) THEN st
    ELSE IF st.ty = "StringType" /\ other.cls = "TruncateTransform"
      THEN LET ot == source_type(other) IN
        IF IsRaise(ot) THEN ot
        ELSE IF ot.ty = "StringType" THEN PyBool(t.width >= other.width)
        ELSE PyBool(FALSE)
    ELSE PyBool(FALSE)

satisfies_order_of(t, other) ==
  CASE t.cls = "IdentityTransform" -> PyBool(preserves_order(other))
    [] t.cls = "TruncateTransform" -> TruncateTransform_satisfies_order_of(t, other)
    [] OTHER -> PyBool(Eq(t, other))

(***************************************************************************)
(* to_human_string, for None, int and str values (an int of a date or time *)
(* type goes to the datetime helpers and is left out for Identity).        *)
(***************************************************************************)
PyStrOf(value) == IF value.k = "int" THEN PyStr(IntToStr(value.v)) ELSE PyStr(value.s)

to_human_string(t, source, value) ==
  CASE t.cls = "VoidTransform" -> PyStr(NULL)
    [] OTHER -> IF value = None THEN PyStr(NULL) ELSE PyStrOf(value)

(***************************************************************************)
(* Inputs.                                                                 *)
(***************************************************************************)
Params == -1..MaxParam

Bracketed(prefix, inner) == prefix \o <<"[">> \o inner \o <<"]">>

FROBNICATE == <<"f","r","o","b","n","i","c","a","t","e">>

YEAR == <<"y","e","a","r">>

RawTexts == {FROBNICATE, YEAR}

Specifiers ==
  {IDENTITY, VOID}
    \cup {Bracketed(p, IntToStr(n)) : p \in {BUCKET, TRUNCATE}, n \in Params \cup {-3}}
    \cup {Bracketed(p, <<"a","b","c">>) : p \in {BUCKET, TRUNCATE}}
    \cup {BUCKET \o <<"e","d">>, TRUNCATE \o <<"d">>, BUCKET, BUCKET \o <<"[","1">>}
    \cup RawTexts

Prefix(seq, n) == SubSeq(seq, 1, n)

\* the i-th byte of the byte strings drawn: 0, 127, 254, ...
ByteAt(i) == ((i - 1) * 127) % 256

\* the values of a source type that the mapping functions are called on
ValuesOf(source) ==
  CASE source \in IntLikeTypes -> {PyInt(n) : n \in (0 - MaxVal)..MaxVal}
    [] source = "DecimalType" -> {PyDecimal(n) : n \in (0 - MaxVal)..MaxVal}
    [] source = "StringType" -> {PyStr(Prefix(Letters, n)) : n \in 0..MaxLen}
    [] source \in {"FixedType", "BinaryType"} ->
         {PyBytes([i \in 1..n |-> ByteAt(i)]) : n \in 0..MaxLen}
    [] source = "UUIDType" -> {PyUUID(n) : n \in 0..MaxVal}
    [] OTHER -> {}

HumanSources == {"IntegerType", "StringType", "DateType"}

HumanValues == {None, PyInt(0 - MaxVal), PyInt(0), PyStr(Prefix(Letters, MaxLen))}

HumanInput(t, source, value) ==
  ~(t.cls = "IdentityTransform" /\ value.k = "int" /\ source = "DateType")

(***************************************************************************)
(* Actions: construction.  A name is bound once; a constructor or parse    *)
(* that raises binds nothing.                                              *)
(***************************************************************************)
Bind(self, r) == objs' = IF IsRaise(r) THEN objs ELSE [objs EXCEPT ![self] = r]

Validate(self, v) ==
  /\ objs[self] = NoObj
  /\ last' = [op |-> "validate", self |-> self, text |-> v, ret |-> validate(v)]
  /\ Bind(self, validate(v))

NewBucket(self, n) ==
  /\ objs[self] = NoObj
  /\ last' = [op |-> "BucketTransform", self |-> self, param |-> n, ret |-> BucketTransform(n)]
  /\ Bind(self, BucketTransform(n))

NewTruncate(self, n) ==
  /\ objs[self] = NoObj
  /\ last' = [op |-> "TruncateTransform", self |-> self, param |-> n, ret |-> TruncateTransform(n)]
  /\ Bind(self, TruncateTransform(n))

NewIdentity(self) ==
  /\ objs[self] = NoObj
  /\ last' = [op |-> "IdentityTransform", self |-> self, ret |-> IdentityTransform]
  /\ Bind(self, IdentityTransform)

NewVoid(self) ==
  /\ objs[self] = NoObj
  /\ last' = [op |-> "VoidTransform", self |-> self, ret |-> VoidTransform]
  /\ Bind(self, VoidTransform)

NewUnknown(self, raw) ==
  /\ objs[self] = NoObj
  /\ last' = [op |-> "UnknownTransform", self |-> self, raw |-> raw, ret |-> UnknownTransform(raw)]
  /\ Bind(self, UnknownTransform(raw))

(***************************************************************************)
(* Actions: the operations of a constructed transform.  None assigns to    *)
(* the transform.                                                          *)
(***************************************************************************)
CanTransform(self, source) ==
  /\ objs[self] # NoObj
  /\ last' = [op |-> "can_transform", self |-> self, source |-> source,
              ret |-> can_transform(objs[self], source)]
  /\ UNCHANGED objs

\* transform that keeps the source type it was given on the transform
Transform_caching(self, source) ==
  /\ objs[self] # NoObj
  /\ last' = [op |-> "transform", self |-> self, source |-> source, bucket |-> TRUE,
              ret |-> transform(self, source)]
  /\ objs' = [objs EXCEPT ![self] =
               IF @.cls = "VoidTransform" THEN @ ELSE [@ EXCEPT !.source_type = source]]

Transform(self, source) ==
  /\ objs[self] # NoObj
  /\ last' = [op |-> "transform", self |-> self, source |-> source, bucket |-> TRUE,
              ret |-> transform(self, source)]
  /\ UNCHANGED objs

TransformHash(self, source) ==
  /\ objs[self] # NoObj
  /\ objs[self].cls = "BucketTransform"
  /\ last' = [op |-> "transform", self |-> self, source |-> source, bucket |-> FALSE,
              ret |-> BucketTransform_transform(self, source, FALSE)]
  /\ UNCHANGED objs

ResultType(self, source) ==
  /\ objs[self] # NoObj
  /\ last' = [op |-> "result_type", self |-> self, source |-> source,
              ret |-> result_type(objs[self], source)]
  /\ UNCHANGED objs

SatisfiesOrderOf(self, other) ==
  /\ objs[self] # NoObj
  /\ objs[other] # NoObj
  /\ last' = [op |-> "satisfies_order_of", self |-> self, other |-> other,
              ret |-> satisfies_order_of(objs[self], objs[other])]
  /\ UNCHANGED objs

ToHumanString(self, source, value) ==
  /\ objs[self] # NoObj
  /\ HumanInput(objs[self], source, value)
  /\ last' = [op |-> "to_human_string", self |-> self, source |-> source, arg |-> value,
              ret |-> to_human_string(objs[self], source, value)]
  /\ UNCHANGED objs

ToStr(self) ==
  /\ objs[self] # NoObj
  /\ last' = [op |-> "str", self |-> self, ret |-> PyStr(Str(objs[self]))]
  /\ UNCHANGED objs

Apply(self, value) ==
  /\ objs[self] # NoObj
  /\ objs[self].cls = "BucketTransform"
  /\ last' = [op |-> "apply", self |-> self, arg |-> value, ret |-> apply(objs[self], value)]
  /\ UNCHANGED objs

\* the function in hand: the one transform just returned, or the one just called
HasFn == \/ last.op = "transform" /\ ~IsRaise(last.ret)
         \/ last.op = "call"

Fn == IF last.op = "call" THEN last.fn ELSE last.ret

\* f(v), for None and the values of f's source type (hash_func takes no None)
Call(v) ==
  /\ HasFn
  /\ v \in ValuesOf(Fn.source) \cup (IF Fn.name = "hash_func" THEN {} ELSE {None})
  /\ last' = [op |-> "call", fn |-> Fn, arg |-> v, ret |-> call(Fn, v)]
  /\ UNCHANGED objs

(***************************************************************************)
(* The specification.                                                      *)
(***************************************************************************)
Init ==
  /\ objs = [s \in Slots |-> NoObj]
  /\ last = [op |-> "none"]

Next ==
  \/ \E self \in Slots, v \in Specifiers : Validate(self, v)
  \/ \E self \in Slots, n \in Params : NewBucket(self, n)
  \/ \E self \in Slots, n \in Params : NewTruncate(self, n)
  \/ \E self \in Slots : NewIdentity(self)
  \/ \E self \in Slots : NewVoid(self)
  \/ \E self \in Slots, raw \in RawTexts : NewUnknown(self, raw)
  \/ \E self \in Slots, source \in Types : CanTransform(self, source)
  \/ \E self \in Slots, source \in Types : Transform(self, source)
  \/ \E self \in Slots, source \in Types : TransformHash(self, source)
  \/ \E self \in Slots, source \in Types : ResultType(self, source)
  \/ \E self \in Slots, other \in Slots : SatisfiesOrderOf(self, other)
  \/ \E self \in Slots, source \in HumanSources, value \in HumanValues :
       ToHumanString(self, source, value)
  \/ \E self \in Slots : ToStr(self)
  \/ \E self \in Slots, value \in HumanValues : Apply(self, value)
  \/ \E v \in UNION {ValuesOf(t) : t \in Types} \cup {None} : Call(v)

Spec == Init /\ [][Next]_vars

(***************************************************************************)
(* Properties.                                                             *)
(***************************************************************************)
IsObj(r, cls) == r.k = "obj" /\ r.cls = cls

HasBrackets(prefix, s) == StartsWith(s, prefix \o <<"[">>) /\ EndsWith(s, <<"]">>)

InnerText(prefix, s) == SubSeq(s, Len(prefix) + 2, Len(s) - 1)

PositiveText(x) == IsIntText(x) /\ StrToInt(x) > 0

\* C1: parsing "bucket[N]" (N > 0) gives a Bucket with num_buckets = N whose
\* canonical string is "bucket[N]"; parsing "truncate[N]" gives a Truncate with
\* width = N whose canonical string is "truncate[N]"; "identity" and "void"
\* parse to transforms whose canonical strings are "identity" and "void".
C1_ParseRoundTrip ==
  last.op = "validate" =>
    /\ \A n \in 1..MaxParam :
         /\ last.text = Bracketed(BUCKET, IntToStr(n)) =>
              /\ IsObj(last.ret, "BucketTransform")
              /\ last.ret.num_buckets = n
              /\ Str(last.ret) = last.text
         /\ last.text = Bracketed(TRUNCATE, IntToStr(n)) =>
              /\ IsObj(last.ret, "TruncateTransform")
              /\ last.ret.width = n
              /\ Str(last.ret) = last.text
    /\ last.text = IDENTITY => IsObj(last.ret, "IdentityTransform") /\ Str(last.ret) = IDENTITY
    /\ last.text = VOID => IsObj(last.ret, "VoidTransform") /\ Str(last.ret) = VOID

\* C2: parsing "bucket[X]" or "truncate[X]" with X not an integer or X <= 0
\* raises, and no Bucket or Truncate with a parameter <= 0 is ever produced,
\* by the parser or by construction.
C2_NoNonPositiveParameter ==
  /\ last.op = "validate" =>
       \A p \in {BUCKET, TRUNCATE} :
         HasBrackets(p, last.text) /\ ~PositiveText(InnerText(p, last.text)) => IsRaise(last.ret)
  /\ \A s \in Slots :
       /\ IsObj(objs[s], "BucketTransform") => objs[s].num_buckets > 0
       /\ IsObj(objs[s], "TruncateTransform") => objs[s].width > 0

\* C3: every specifier that is not "identity", not "void", and not of the form
\* bucket[...] or truncate[...] parses without error to an Unknown transform
\* that keeps the input as its raw text and has the canonical string "unknown".
C3_UnknownPassthrough ==
  last.op = "validate" /\ last.text \notin {IDENTITY, VOID}
    /\ ~HasBrackets(BUCKET, last.text) /\ ~HasBrackets(TRUNCATE, last.text)
  => /\ IsObj(last.ret, "UnknownTransform")
     /\ last.ret.transform = last.text
     /\ Str(last.ret) = UNKNOWN

\* C4: the mapping function of Bucket(N), N > 0, returns None iff its input is
\* None, and for every other input (0, "" and b"" included) returns
\* (hash(encode(v)) & 0x7FFFFFFF) mod N, an integer in 0..N-1.
C4_BucketMapping ==
  last.op = "call" /\ last.fn.name = "bucket_lambda" /\ objs[last.fn.self].num_buckets > 0
  => LET N == objs[last.fn.self].num_buckets IN
     /\ last.ret = None <=> last.arg = None
     /\ last.arg # None =>
          /\ last.ret = PyInt(AndIntegerMax(hash_func(last.fn.source, last.arg)) % N)
          /\ 0 <= last.ret.v /\ last.ret.v < N

\* C5: the mapping function of Truncate(W), W > 0, returns None only for None;
\* for an integer v it returns v - (v mod W) (floor modulo); for a string or
\* byte string v it returns the first min(W, len(v)) elements of v.
C5_TruncateMapping ==
  last.op = "call" /\ last.fn.name = "truncate_lambda" /\ objs[last.fn.self].width > 0
    /\ last.fn.source \in {"IntegerType", "LongType", "StringType", "BinaryType"}
  => LET W == objs[last.fn.self].width
         v == last.arg
     IN /\ last.ret = None <=> v = None
        /\ v # None /\ v.k = "int" => last.ret = PyInt(v.v - (v.v % W))
        /\ v # None /\ v.k = "str" => last.ret = PyStr(Prefix(v.s, PyMin(W, Len(v.s))))
        /\ v # None /\ v.k = "bytes" => last.ret = PyBytes(Prefix(v.b, PyMin(W, Len(v.b))))

\* C6: for two Truncate transforms A = Truncate(W1), B = Truncate(W2), after any
\* calls made on them, A.satisfies_order_of(B) raises nothing and returns
\* W1 >= W2; for an other that is not equal and not a Truncate it returns false.
C6_TruncateOrder ==
  last.op = "satisfies_order_of" /\ IsObj(objs[last.self], "TruncateTransform")
    /\ objs[last.self].width > 0
  => LET A == objs[last.self]
         B == objs[last.other]
     IN /\ ~IsRaise(last.ret)
        /\ IsObj(B, "TruncateTransform") /\ B.width > 0 =>
             last.ret = PyBool(A.width >= B.width)
        /\ ~IsObj(B, "TruncateTransform") => last.ret = PyBool(FALSE)

KnownClasses == {"IdentityTransform", "BucketTransform", "TruncateTransform", "VoidTransform"}

\* C7: can_transform never raises; for Identity, Bucket, Truncate and Void,
\* transform(type) and result_type(type) raise iff can_transform(type) is
\* false; for Unknown can_transform is false and transform always raises.
C7_CapabilityGate ==
  /\ last.op = "can_transform" =>
       /\ ~IsRaise(last.ret)
       /\ IsObj(objs[last.self], "UnknownTransform") => last.ret = PyBool(FALSE)
  /\ last.op = "transform" /\ last.bucket /\ objs[last.self].cls \in KnownClasses =>
       (IsRaise(last.ret) <=> ~can_transform(objs[last.self], last.source).t)
  /\ last.op = "result_type" /\ objs[last.self].cls \in KnownClasses =>
       (IsRaise(last.ret) <=> ~can_transform(objs[last.self], last.source).t)
  /\ last.op = "transform" /\ IsObj(objs[last.self], "UnknownTransform") => IsRaise(last.ret)

\* C8: Identity.satisfies_order_of(t) equals t.preserves_order: true when t is
\* Identity or a Truncate of any width, false when t is a Bucket, Void or Unknown.
C8_IdentityOrder ==
  last.op = "satisfies_order_of" /\ IsObj(objs[last.self], "IdentityTransform")
  => /\ last.ret = PyBool(preserves_order(objs[last.other]))
     /\ last.ret = PyBool(objs[last.other].cls \in {"IdentityTransform", "TruncateTransform"})

C8_Witness ==
  /\ last.op = "satisfies_order_of"
  /\ IsObj(objs[last.self], "IdentityTransform")
  /\ IsObj(objs[last.other], "TruncateTransform")
  /\ last.ret = PyBool(TRUE)

\* C9: two transforms are equal iff their canonical strings are equal; for
\* Bucket, Void and Unknown, A.satisfies_order_of(B) is true iff A equals B:
\* Bucket(N) satisfies only a Bucket with the same N (never Truncate(N)), and
\* any two Unknown transforms satisfy each other whatever their raw text.
C9_EqualityOrder ==
  /\ \A x \in Slots, y \in Slots :
       objs[x] # NoObj /\ objs[y] # NoObj =>
         (Eq(objs[x], objs[y]) <=> Str(objs[x]) = Str(objs[y]))
  /\ last.op = "satisfies_order_of"
       /\ objs[last.self].cls \in {"BucketTransform", "VoidTransform", "UnknownTransform"}
     => LET A == objs[last.self]
            B == objs[last.other]
        IN /\ last.ret = PyBool(Str(A) = Str(B))
           /\ A.cls = "BucketTransform" =>
                last.ret = PyBool(B.cls = "BucketTransform" /\ B.num_buckets = A.num_buckets)
           /\ A.cls = "UnknownTransform" => last.ret = PyBool(B.cls = "UnknownTransform")
           /\ A.cls = "VoidTransform" => last.ret = PyBool(B.cls = "VoidTransform")

C9_Witness ==
  /\ last.op = "satisfies_order_of"
  /\ IsObj(objs[last.self], "UnknownTransform")
  /\ IsObj(objs[last.other], "UnknownTransform")
  /\ objs[last.self].transform # objs[last.other].transform
  /\ last.ret = PyBool(TRUE)

\* a transform as its constructor makes it from its own parameter
Rebuilt(t) ==
  CASE t.cls = "BucketTransform" -> BucketTransform(t.num_buckets)
    [] t.cls = "TruncateTransform" -> TruncateTransform(t.width)
    [] t.cls = "IdentityTransform" -> IdentityTransform
    [] t.cls = "VoidTransform" -> VoidTransform
    [] t.cls = "UnknownTransform" -> UnknownTransform(t.transform)

\* C10: no call changes a constructed transform: its canonical string, its
\* parameter and its stored source type stay as construction left them, so a
\* mapping function returns what it returns on a newly constructed transform.
C10_Immutable ==
  [][/\ \A s \in Slots :
          objs[s] # NoObj =>
            /\ objs'[s] = objs[s]
            /\ Str(objs'[s]) = Str(objs[s])
            /\ objs'[s] = Rebuilt(objs[s])
     /\ last'.op = "call" /\ last'.fn.name = "bucket_lambda" =>
          last'.ret = bucket_lambda(Rebuilt(objs'[last'.fn.self]), last'.fn.source, last'.arg)
     /\ last'.op = "call" /\ last'.fn.name = "truncate_lambda" =>
          last'.ret = truncate_lambda(Rebuilt(objs'[last'.fn.self]), last'.fn.source, last'.arg)]_vars

C10_Witness ==
  /\ last.op = "call"
  /\ last.fn.name = "truncate_lambda"
  /\ last.fn.source = "StringType"
  /\ last.ret.k = "str"
  /\ \A s \in Slots : objs[s] # NoObj

====
